---- MODULE Spec2Model ----
(***************************************************************************)
(* Binance Chain wallet adapter (src/src/utils/walletApi/binance.js).      *)
(*                                                                         *)
(* Spec    : connection lifecycle -- init (install), connect, queryState,  *)
(*           the accountsChanged and chainChanged listeners.               *)
(* SpecTx  : transaction submission -- approve, nftApprove, lock, nftLock  *)
(*           and confirmLater on a web3 PromiEvent.                        *)
(* FairSpec: Spec with weak fairness on the steps of init.                 *)
(***************************************************************************)
EXTENDS Integers, Sequences, FiniteSets, TLC

VARIABLES
  env,          \* [hasProvider, targetMainnet]: window.BinanceChain present, TARGET_MAINNET
  prov,         \* the provider's own state: [accounts, network]
  session,      \* sessionStorage[BINANCE_CONNECTED_KEY]
  wallet,       \* the ConnectionState held by the store for WalletName.Binance
  lastPub,      \* the last updateWallet dispatch: [src, payload]
  init,         \* the init() call: [pc, resolved, threw, pubs]
  listeners,    \* persistent provider listeners: [accountsChanged, chainChanged]
  qs,           \* the queryState() call of each caller ("init", "connect")
  conn,         \* the connect() call: [pc, result, calls, wrote, requests, failedAt]
  handlers,     \* accountsChanged handlers suspended on tryToConvertAddressToHex
  evt,          \* event counters: [accChanges, chainChanges, accDelivered, accPubSeq]
  tx,           \* the submission in progress (approve / nftApprove / lock / nftLock)
  chain,        \* the chain as web3 reads it: [receipts]
  qry,          \* the read-only query in progress (getBalance ... getTransactionStatus)
  cls           \* convertWalletError applied to an error: [step, input, once, twice]

vars == <<env, prov, session, wallet, lastPub, init, listeners, qs, conn, handlers, evt,
          tx, chain, qry, cls>>

lifecycleVars == <<env, prov, session, wallet, lastPub, init, listeners, qs, conn, handlers, evt>>

----------------------------------------------------------------------------
(* Bounds *)

MaxAccountEvents == 1   \* account changes made by the provider
MaxChainEvents == 1     \* network changes made by the provider
MaxConnects == 1        \* connect() calls
MaxTxEvents == 3        \* events emitted by one submission
MaxQueries == 2         \* read-only query calls
MaxMsgLen == 5          \* words in an error message

----------------------------------------------------------------------------
(* JavaScript values *)

null == "null"
undefined == "undefined"

BINANCE_CONNECTED_KEY == "BINANCE_CONNECTED"

WalletNameBinance == "Binance"

ChainIdBsc == "Bsc"

\* Addresses the provider can report, lower-case as the extension returns them.
Addresses == {"0xab12", "0xcd34"}

AccountLists == {<<>>, <<"0xab12">>, <<"0xcd34", "0xab12">>}

NonEmptyAccountLists == AccountLists \ {<<>>}

\* Network ids as the provider reports them: hexadecimal digit strings
\* (0x38 = 56, 0x61 = 97).
Networks == {<<3, 8>>, <<6, 1>>}

\* Error messages, as sequences of words.
RejectedByUser == <<"Rejected", "by", "user">>
InsufficientFunds == <<"insufficient", "funds">>

\* Messages of a rejected account-access request, and of a failed RPC request.
ProviderMessages == {RejectedByUser, <<"Internal", "error">>}
RequestMessages == {<<"Internal", "error">>}

TypeErrorMessage == <<"Cannot", "read", "property", "of", "undefined">>

RawError(m) == [name |-> "Error", message |-> m]

\* No error / no result yet, and a returned value.
None == [name |-> "none"]
Returned(v) == [name |-> "value", value |-> v]

----------------------------------------------------------------------------
(* Pure helpers *)

\* Number(network) for a hexadecimal string.
RECURSIVE HexToNumber(_)
HexToNumber(digits) ==
  IF Len(digits) = 0 THEN 0
  ELSE 16 * HexToNumber(SubSeq(digits, 1, Len(digits) - 1)) + digits[Len(digits)]

\* Variant of NETWORK_CHAIN_ID_MAPS with the two network ids exchanged.
NETWORK_CHAIN_ID_MAPS_Swapped(mainnet, n) ==
  IF n = (IF mainnet THEN 97 ELSE 56) THEN ChainIdBsc ELSE undefined

\* NETWORK_CHAIN_ID_MAPS[n]: the only key is TARGET_MAINNET ? 56 : 97.
NETWORK_CHAIN_ID_MAPS(mainnet, n) ==
  IF n = (IF mainnet THEN 56 ELSE 97) THEN ChainIdBsc ELSE undefined

\* accounts[0] || null
FirstAccount(accounts) ==
  IF Len(accounts) = 0 \/ accounts[1] = "" THEN null ELSE accounts[1]

\* web3.utils.toChecksumAddress
toChecksumAddress(a) ==
  CASE a = "0xab12" -> "0xAb12"
    [] a = "0xcd34" -> "0xCd34"
    [] OTHER -> a

\* address && web3.utils.toChecksumAddress(address)
ChecksumAddress(address) ==
  IF address = null THEN null ELSE toChecksumAddress(address)

\* The hex form tryToConvertAddressToHex yields when it succeeds.
AddressToHex(a) ==
  CASE a = "0xab12" -> "ab12"
    [] a = "0xcd34" -> "cd34"
    [] OTHER -> null

\* The possible results of tryToConvertAddressToHex(WalletName.Binance, address).
tryToConvertAddressToHex(address) ==
  IF address = null THEN {null} ELSE {AddressToHex(address), null}

\* Numbers are digit strings: an integer is a sequence of digits, a decimal
\* a pair of digit sequences (before and after the point).
Dec(i, f) == [int |-> i, frac |-> f]

Zeros(n) == [i \in 1..n |-> 0]

RECURSIVE StripLeadingZeros(_)
StripLeadingZeros(s) ==
  IF Len(s) > 1 /\ s[1] = 0 THEN StripLeadingZeros(Tail(s)) ELSE s

RECURSIVE StripTrailingZeros(_)
StripTrailingZeros(s) ==
  IF Len(s) > 0 /\ s[Len(s)] = 0 THEN StripTrailingZeros(SubSeq(s, 1, Len(s) - 1)) ELSE s

\* decimalToInteger(value, decimals): the point moves right by decimals
\* digits, further fractional digits are dropped.
decimalToInteger(v, d) ==
  StripLeadingZeros(
    v.int \o (IF Len(v.frac) >= d THEN SubSeq(v.frac, 1, d)
               ELSE v.frac \o Zeros(d - Len(v.frac))))

\* integerToDecimal(value, decimals): the point moves left by decimals digits.
integerToDecimal(s, d) ==
  LET p == IF Len(s) <= d THEN Zeros(d - Len(s) + 1) \o s ELSE s IN
  Dec(StripLeadingZeros(SubSeq(p, 1, Len(p) - d)),
      StripTrailingZeros(SubSeq(p, Len(p) - d + 1, Len(p))))

\* s.includes(phrase) on word sequences.
Includes(s, phrase) ==
  \E i \in 0..(Len(s) - Len(phrase)) : SubSeq(s, i + 1, i + Len(phrase)) = phrase

\* Variant of convertWalletError that hands the error back as it came.
convertWalletError_Raw(error) == error

\* Variant of convertWalletError that tests for 'insufficient funds' first.
convertWalletError_InsufficientFirst(error) ==
  IF error.name = "WalletError" THEN error
  ELSE [name |-> "WalletError",
        code |-> IF Includes(error.message, InsufficientFunds) THEN "INSUFFICIENT_FUNDS"
                 ELSE IF Includes(error.message, RejectedByUser) THEN "USER_REJECTED"
                 ELSE "UNKNOWN_ERROR",
        message |-> error.message,
        cause |-> error]

\* Variant of convertWalletError without the instanceof test.
convertWalletError_AlwaysWraps(error) ==
  [name |-> "WalletError",
   code |-> IF Includes(error.message, RejectedByUser) THEN "USER_REJECTED"
            ELSE IF Includes(error.message, InsufficientFunds) THEN "INSUFFICIENT_FUNDS"
            ELSE "UNKNOWN_ERROR",
   message |-> error.message,
   cause |-> error]

\* convertWalletError: a WalletError is handed back, any other error is
\* wrapped with the code its message selects, the first match winning.
convertWalletError(error) ==
  IF error.name = "WalletError" THEN error
  ELSE [name |-> "WalletError",
        code |-> IF Includes(error.message, RejectedByUser) THEN "USER_REJECTED"
                 ELSE IF Includes(error.message, InsufficientFunds) THEN "INSUFFICIENT_FUNDS"
                 ELSE "UNKNOWN_ERROR",
        message |-> error.message,
        cause |-> error]

----------------------------------------------------------------------------
(* The store *)

WalletKeys == {"name", "installed", "connected", "address", "addressHex", "chainId"}

InitialWallet ==
  [name |-> WalletNameBinance, installed |-> FALSE, connected |-> FALSE,
   address |-> null, addressHex |-> null, chainId |-> null]

\* store.dispatch('updateWallet', payload): the payload's fields replace the
\* wallet's, the others are kept.
updateWallet(w, payload) ==
  [k \in DOMAIN w |-> IF k \in DOMAIN payload THEN payload[k] ELSE w[k]]

\* Payload of init's dispatch.
InstalledPayload == [name |-> WalletNameBinance, installed |-> TRUE]

\* Variant of queryState's payload dispatched before the chain id is known.
QueryStatePayload_NoChain(checksumAddress, addressHex, network) ==
  [name |-> WalletNameBinance,
   address |-> checksumAddress,
   addressHex |-> addressHex,
   connected |-> (checksumAddress # null /\ checksumAddress # "")]

\* Payload of queryState's dispatch.
QueryStatePayload(checksumAddress, addressHex, network) ==
  [name |-> WalletNameBinance,
   address |-> checksumAddress,
   addressHex |-> addressHex,
   connected |-> (checksumAddress # null /\ checksumAddress # ""),
   chainId |-> NETWORK_CHAIN_ID_MAPS(env.targetMainnet, HexToNumber(network))]

\* Variant of the accountsChanged payload deriving connected from addressHex.
AccountsChangedPayload_ConnectedFromHex(checksumAddress, addressHex) ==
  [name |-> WalletNameBinance,
   address |-> checksumAddress,
   addressHex |-> addressHex,
   connected |-> (addressHex # null /\ addressHex # "")]

\* Variant of the accountsChanged payload that also carries a chainId key.
AccountsChangedPayload_WithChain(checksumAddress, addressHex) ==
  [name |-> WalletNameBinance,
   address |-> checksumAddress,
   addressHex |-> addressHex,
   connected |-> (checksumAddress # null /\ checksumAddress # ""),
   chainId |-> undefined]

\* Payload of the accountsChanged listener's dispatch.
AccountsChangedPayload(checksumAddress, addressHex) ==
  [name |-> WalletNameBinance,
   address |-> checksumAddress,
   addressHex |-> addressHex,
   connected |-> (checksumAddress # null /\ checksumAddress # "")]

\* Payload of the chainChanged listener's dispatch.
ChainChangedPayload(network) ==
  [name |-> WalletNameBinance,
   chainId |-> NETWORK_CHAIN_ID_MAPS(env.targetMainnet, HexToNumber(network))]

Publish(src, payload) ==
  /\ wallet' = updateWallet(wallet, payload)
  /\ lastPub' = [src |-> src, payload |-> payload]

----------------------------------------------------------------------------
(* Initial state *)

IdleQuery == [pc |-> "idle", address |-> null, checksumAddress |-> null,
              addressHex |-> null, pubs |-> 0]

IdleConn == [pc |-> "idle", result |-> None, calls |-> 0, wrote |-> FALSE,
             requests |-> 0, failedAt |-> "none"]

PendingPromise == [state |-> "pending", value |-> null]

NoListeners == [transactionHash |-> 0, error |-> 0, confirmation |-> 0]

NoArgs == [token |-> "none", amount |-> Dec(<<0>>, <<>>), fee |-> Dec(<<0>>, <<>>),
           decimals |-> 0, nftFeeName |-> FALSE]

NoCall == [amountInt |-> <<>>, feeInt |-> <<>>, value |-> <<>>]

IdleTx == [op |-> "none", pc |-> "idle", result |-> None, emitted |-> <<>>,
           args |-> NoArgs, call |-> NoCall, sent |-> FALSE,
           send |-> PendingPromise, cl |-> PendingPromise, settles |-> 0,
           on |-> NoListeners]

\* A transaction receipt as web3.eth.getTransactionReceipt returns it (null
\* when the transaction has none).
NoReceipt == [present |-> FALSE, status |-> FALSE]
Receipt(status) == [present |-> TRUE, status |-> status]
Receipts == {NoReceipt, Receipt(TRUE), Receipt(FALSE)}

InitialChain == [receipts |-> [h \in {"0xh1", "0xh2"} |-> NoReceipt]]

NoQueryArgs == [token |-> "none", hash |-> "none", found |-> FALSE, decimals |-> 0]

IdleQry == [op |-> "none", pc |-> "idle", args |-> NoQueryArgs, result |-> None,
            prev |-> None, prevHash |-> "none", raw |-> <<>>, contractCalls |-> 0, nativeCalls |-> 0,
            calls |-> 0]

IdleCls == [step |-> 0, input |-> None, once |-> None, twice |-> None]

Init ==
  /\ env \in [hasProvider : BOOLEAN, targetMainnet : BOOLEAN]
  /\ prov \in [accounts : AccountLists, network : Networks]
  /\ (~env.hasProvider => prov = [accounts |-> <<>>, network |-> <<3, 8>>])
  /\ session \in {null, "true"}
  /\ wallet = InitialWallet
  /\ lastPub = [src |-> "none", payload |-> [name |-> WalletNameBinance]]
  /\ init = [pc |-> "start", resolved |-> 0, threw |-> None, pubs |-> 0]
  /\ listeners = [accountsChanged |-> FALSE, chainChanged |-> FALSE]
  /\ qs = [o \in {"init", "connect"} |-> IdleQuery]
  /\ conn = IdleConn
  /\ handlers = {}
  /\ evt = [accChanges |-> 0, chainChanges |-> 0, accDelivered |-> 0, accPubSeq |-> 0]
  /\ tx = IdleTx
  /\ chain = InitialChain
  /\ qry = IdleQry
  /\ cls = IdleCls

----------------------------------------------------------------------------
(* init *)

\* Variant of init's exit with deferred.resolve() after the try block instead
\* of in finally.
InitExit_NoFinally(resolved, threw) == IF threw THEN resolved ELSE resolved + 1

\* The finally block of init: deferred.resolve() runs on every exit.
InitExit(resolved, threw) == resolved + 1

\* Registration of the two persistent listeners.
RegisteredListeners == [accountsChanged |-> TRUE, chainChanged |-> TRUE]

\* init() up to its first suspension or its return.
InitCall ==
  /\ init.pc = "start"
  /\ IF ~env.hasProvider
     THEN /\ init' = [init EXCEPT !.pc = "done", !.resolved = InitExit(@, FALSE)]
          /\ UNCHANGED <<wallet, lastPub, qs, listeners>>
     ELSE /\ Publish("init", InstalledPayload)
          /\ IF session = "true"
             THEN /\ qs' = [qs EXCEPT !["init"] = [IdleQuery EXCEPT !.pc = "eth_accounts"]]
                  /\ init' = [init EXCEPT !.pc = "restore", !.pubs = @ + 1]
                  /\ UNCHANGED listeners
             ELSE /\ listeners' = RegisteredListeners
                  /\ init' = [init EXCEPT !.pc = "done", !.pubs = @ + 1,
                                          !.resolved = InitExit(@, FALSE)]
                  /\ UNCHANGED qs
  /\ UNCHANGED <<env, prov, session, conn, handlers, evt, tx, chain, qry, cls>>

----------------------------------------------------------------------------
(* queryState, run by init (start-up restore) or by connect *)

\* eth_accounts returns: the first account is taken and the conversion starts.
QueryAccountsReturn(o) ==
  /\ qs[o].pc = "eth_accounts"
  /\ qs' = [qs EXCEPT ![o].pc = "toHex", ![o].address = FirstAccount(prov.accounts)]
  /\ UNCHANGED <<env, prov, session, wallet, lastPub, init, listeners, conn, handlers, evt, tx, chain, qry, cls>>

\* tryToConvertAddressToHex returns: the checksum address is computed and
\* eth_chainId is requested.
QueryHexReturn(o) ==
  /\ qs[o].pc = "toHex"
  /\ \E hex \in tryToConvertAddressToHex(qs[o].address) :
       qs' = [qs EXCEPT ![o].pc = "eth_chainId",
                        ![o].addressHex = hex,
                        ![o].checksumAddress = ChecksumAddress(qs[o].address)]
  /\ UNCHANGED <<env, prov, session, wallet, lastPub, init, listeners, conn, handlers, evt, tx, chain, qry, cls>>

\* eth_chainId returns: queryState dispatches and returns, and its caller
\* runs on: connect writes the session flag, init registers the listeners
\* and leaves through finally.
QueryChainReturn(o) ==
  /\ qs[o].pc = "eth_chainId"
  /\ Publish("queryState",
             QueryStatePayload(qs[o].checksumAddress, qs[o].addressHex, prov.network))
  /\ qs' = [qs EXCEPT ![o] = [IdleQuery EXCEPT !.pc = "done", !.pubs = qs[o].pubs + 1]]
  /\ IF o = "connect"
     THEN /\ session' = "true"
          /\ conn' = [conn EXCEPT !.pc = "done", !.wrote = TRUE]
          /\ UNCHANGED <<init, listeners>>
     ELSE /\ listeners' = RegisteredListeners
          /\ init' = [init EXCEPT !.pc = "done", !.resolved = InitExit(@, FALSE)]
          /\ UNCHANGED <<session, conn>>
  /\ UNCHANGED <<env, prov, handlers, evt, tx, chain, qry, cls>>

\* A provider request of queryState fails with message m: queryState rejects
\* without dispatching.  connect catches and throws the converted error; init
\* has no catch, so it leaves through finally and rejects with the raw error.
QueryRequestFail(o, m) ==
  /\ qs[o].pc \in {"eth_accounts", "eth_chainId"}
  /\ qs' = [qs EXCEPT ![o] = [IdleQuery EXCEPT !.pc = "failed", !.pubs = qs[o].pubs]]
  /\ IF o = "connect"
     THEN /\ conn' = [conn EXCEPT !.pc = "failed",
                                  !.result = convertWalletError(RawError(m)),
                                  !.failedAt = qs[o].pc]
          /\ UNCHANGED init
     ELSE /\ init' = [init EXCEPT !.pc = "done", !.threw = RawError(m),
                                  !.resolved = InitExit(@, TRUE)]
          /\ UNCHANGED conn
  /\ UNCHANGED <<env, prov, session, wallet, lastPub, listeners, handlers, evt, tx, chain, qry, cls>>

----------------------------------------------------------------------------
(* connect *)

\* connect() is called (after install has been called).  Without a provider,
\* window.BinanceChain.request throws a TypeError at once.
ConnectCall ==
  /\ conn.pc \in {"idle", "done", "failed"}
  /\ init.pc # "start"
  /\ conn.calls < MaxConnects
  /\ IF ~env.hasProvider
     THEN conn' = [IdleConn EXCEPT !.pc = "failed", !.calls = conn.calls + 1,
                                   !.result = convertWalletError(RawError(TypeErrorMessage)),
                                   !.failedAt = "eth_requestAccounts"]
     ELSE conn' = [IdleConn EXCEPT !.pc = "eth_requestAccounts", !.calls = conn.calls + 1,
                                   !.requests = 1]
  /\ qs' = [qs EXCEPT !["connect"] = IdleQuery]
  /\ UNCHANGED <<env, prov, session, wallet, lastPub, init, listeners, handlers, evt, tx, chain, qry, cls>>

\* The user grants access.  A provider that exposed no account now exposes
\* some, and tells its accountsChanged listeners.  queryState is entered.
ConnectRequestReturn ==
  /\ conn.pc = "eth_requestAccounts"
  /\ IF prov.accounts = <<>>
     THEN \E accs \in NonEmptyAccountLists :
            /\ prov' = [prov EXCEPT !.accounts = accs]
            /\ IF listeners.accountsChanged
               THEN /\ handlers' = handlers \cup
                         {[seq |-> evt.accDelivered + 1, address |-> FirstAccount(accs)]}
                    /\ evt' = [evt EXCEPT !.accDelivered = @ + 1]
               ELSE UNCHANGED <<handlers, evt>>
     ELSE UNCHANGED <<prov, handlers, evt>>
  /\ qs' = [qs EXCEPT !["connect"] = [IdleQuery EXCEPT !.pc = "eth_accounts"]]
  /\ conn' = [conn EXCEPT !.pc = "queryState"]
  /\ UNCHANGED <<env, session, wallet, lastPub, init, listeners, tx, chain, qry, cls>>

\* eth_requestAccounts is rejected with message m.
ConnectRequestFail(m) ==
  /\ conn.pc = "eth_requestAccounts"
  /\ conn' = [conn EXCEPT !.pc = "failed",
                          !.result = convertWalletError(RawError(m)),
                          !.failedAt = "eth_requestAccounts"]
  /\ UNCHANGED <<env, prov, session, wallet, lastPub, init, listeners, qs, handlers, evt, tx, chain, qry, cls>>

----------------------------------------------------------------------------
(* Provider events *)

\* The provider's account list changes; a registered accountsChanged listener
\* runs up to its await.
ProviderAccountsChange(accs) ==
  /\ env.hasProvider
  /\ accs # prov.accounts
  /\ evt.accChanges < MaxAccountEvents
  /\ prov' = [prov EXCEPT !.accounts = accs]
  /\ IF listeners.accountsChanged
     THEN /\ handlers' = handlers \cup
               {[seq |-> evt.accDelivered + 1, address |-> FirstAccount(accs)]}
          /\ evt' = [evt EXCEPT !.accChanges = @ + 1, !.accDelivered = @ + 1]
     ELSE /\ evt' = [evt EXCEPT !.accChanges = @ + 1]
          /\ UNCHANGED handlers
  /\ UNCHANGED <<env, session, wallet, lastPub, init, listeners, qs, conn, tx, chain, qry, cls>>

\* The conversion awaited by an accountsChanged handler returns: the handler
\* computes the checksum address and dispatches.
AccountsChangedReturn ==
  /\ \E h \in handlers :
       /\ \E hex \in tryToConvertAddressToHex(h.address) :
            Publish("accountsChanged",
                    AccountsChangedPayload(ChecksumAddress(h.address), hex))
       /\ handlers' = handlers \ {h}
       /\ evt' = [evt EXCEPT !.accPubSeq = h.seq]
  /\ UNCHANGED <<env, prov, session, init, listeners, qs, conn, tx, chain, qry, cls>>

\* The provider's network changes; a registered chainChanged listener
\* dispatches synchronously.
ProviderChainChange(network) ==
  /\ env.hasProvider
  /\ network # prov.network
  /\ evt.chainChanges < MaxChainEvents
  /\ prov' = [prov EXCEPT !.network = network]
  /\ evt' = [evt EXCEPT !.chainChanges = @ + 1]
  /\ IF listeners.chainChanged
     THEN Publish("chainChanged", ChainChangedPayload(network))
     ELSE UNCHANGED <<wallet, lastPub>>
  /\ UNCHANGED <<env, session, init, listeners, qs, conn, handlers, tx, chain, qry, cls>>

----------------------------------------------------------------------------
(* Transaction submission: approve, nftApprove, lock, nftLock *)

SubmitOps == {"approve", "nftApprove", "lock", "nftLock"}

\* The all-zero token hash that stands for the chain's native coin, and a token.
NativeTokenHash == "0000000000000000000000000000000000000000"
Erc20TokenHash == "55d398326f99059ff775485246999027b3197955"
NftTokenHash == "f2a3b1c4d5e6f7a8b9c0d1e2f3a4b5c6d7e8f9a0"

\* tokenBasic.decimals of the token registry.
TokenDecimals(token) == IF token = NativeTokenHash THEN 18 ELSE 6

\* Amounts "1.5" and "0.1234567", fee "0.01", NFT id "7".
Amounts == {Dec(<<1>>, <<5>>), Dec(<<0>>, <<1, 2, 3, 4, 5, 6, 7>>)}
Fees == {Dec(<<0>>, <<0, 1>>)}
NftIds == {Dec(<<7>>, <<>>)}

\* The arguments (with the registry entries they select) of each operation.
ArgsOf(op) ==
  IF op = "lock"
  THEN {[token |-> t, amount |-> a, fee |-> f, decimals |-> TokenDecimals(t), nftFeeName |-> n] :
          t \in {NativeTokenHash, Erc20TokenHash}, a \in Amounts, f \in Fees, n \in BOOLEAN}
  ELSE IF op = "approve"
  THEN {[token |-> Erc20TokenHash, amount |-> a, fee |-> Dec(<<0>>, <<>>),
         decimals |-> TokenDecimals(Erc20TokenHash), nftFeeName |-> FALSE] : a \in Amounts}
  ELSE {[token |-> NftTokenHash, amount |-> id, fee |-> f, decimals |-> 0, nftFeeName |-> TRUE] :
          id \in NftIds, f \in Fees}

\* Variant of lock's value that always sends the fee.
LockValue_Fee(token, amountInt, feeInt) == feeInt

\* lock: the native value sent with the transaction.
LockValue(token, amountInt, feeInt) ==
  IF token = NativeTokenHash THEN amountInt ELSE feeInt

\* The amounts an operation encodes and the native value it sends.
CallOf(op, a) ==
  IF op = "lock"
  THEN LET amountInt == decimalToInteger(a.amount, a.decimals)
           feeInt == decimalToInteger(a.fee, IF a.nftFeeName THEN 18 ELSE a.decimals)
       IN [amountInt |-> amountInt, feeInt |-> feeInt,
           value |-> LockValue(a.token, amountInt, feeInt)]
  ELSE IF op = "nftLock"
  THEN LET feeInt == decimalToInteger(a.fee, 18)
       IN [amountInt |-> decimalToInteger(a.amount, 0), feeInt |-> feeInt, value |-> feeInt]
  ELSE IF op = "approve"
  THEN [amountInt |-> decimalToInteger(a.amount, a.decimals), feeInt |-> <<>>, value |-> <<>>]
  ELSE [amountInt |-> decimalToInteger(a.amount, 0), feeInt |-> <<>>, value |-> <<>>]

TxHashes == {"0xh1", "0xh2"}

\* The events a web3 PromiEvent can emit.
TxEvents ==
  [type : {"transactionHash"}, value : TxHashes]
    \cup [type : {"receipt", "confirmation"}, value : {"receipt"}]
    \cup [type : {"error"}, value : {RejectedByUser, InsufficientFunds}]

\* toStandardHex(hash): the hash without its 0x prefix.
toStandardHex(h) ==
  CASE h = "0xh1" -> "h1"
    [] h = "0xh2" -> "h2"
    [] OTHER -> h

\* resolve / reject of a JavaScript promise: only a pending promise settles.
Resolve(p, v) == IF p.state = "pending" THEN [state |-> "resolved", value |-> v] ELSE p
Reject(p, e) == IF p.state = "pending" THEN [state |-> "rejected", value |-> e] ELSE p

\* The promise side of the PromiEvent returned by send(): it resolves with
\* the receipt and rejects with the error.
SendPromise(p, e) ==
  CASE e.type = "receipt" -> Resolve(p, e.value)
    [] e.type = "error" -> Reject(p, e.value)
    [] OTHER -> p

\* confirmLater: the listeners it registers on the PromiEvent.
ConfirmLaterListeners == [transactionHash |-> 1, error |-> 1, confirmation |-> 1]

\* Variant of confirmLater with resolve registered for 'error' as well.
ConfirmLater_ErrorResolves(p, on, e) ==
  CASE e.type = "transactionHash" /\ on.transactionHash > 0 -> Resolve(p, e.value)
    [] e.type = "error" /\ on.error > 0 -> Resolve(p, e.value)
    [] OTHER -> p

\* confirmLater: what its listeners do to its promise when event e is emitted.
ConfirmLater(p, on, e) ==
  CASE e.type = "transactionHash" /\ on.transactionHash > 0 -> Resolve(p, e.value)
    [] e.type = "error" /\ on.error > 0 -> Reject(p, e.value)
    [] OTHER -> p

\* confirmLater: onConfirm takes itself off the PromiEvent.
OnConfirm(on, e) ==
  IF e.type = "confirmation" /\ on.confirmation > 0
  THEN [on EXCEPT !.confirmation = @ - 1]
  ELSE on

\* Variant in which every operation awaits send(...) itself.
Awaited_SendOnly(op) == "send"

\* What the operation awaits: lock and nftLock await confirmLater(send(...)),
\* approve and nftApprove await send(...) itself.
Awaited(op) == IF op \in {"lock", "nftLock"} THEN "confirmLater" ELSE "send"

\* The operation's continuation once the promise it awaits has settled.
TxResume(t) ==
  LET p == IF Awaited(t.op) = "confirmLater" THEN t.cl ELSE t.send IN
  IF t.pc # "awaiting" \/ p.state = "pending" THEN t
  ELSE IF p.state = "rejected"
       THEN [t EXCEPT !.pc = "threw", !.result = convertWalletError(RawError(p.value))]
       ELSE [t EXCEPT !.pc = "returned",
                      !.result = IF Awaited(t.op) = "confirmLater"
                                 THEN Returned(toStandardHex(p.value))
                                 ELSE Returned(p.value)]

\* Variant in which an operation dispatches the chain id it worked on.
OperationEffect_DispatchesChainId ==
  /\ Publish("operation", [name |-> WalletNameBinance, chainId |-> ChainIdBsc])
  /\ UNCHANGED <<env, prov, session, init, listeners, qs, conn, handlers, evt>>

\* What a query or submission operation does to the store, the session flag
\* and the lifecycle: nothing, none of them dispatches or writes the flag.
OperationEffect == UNCHANGED lifecycleVars

\* The operation is called.  approve and nftApprove send at once; lock and
\* nftLock first await getChainApi(toChainId).
TxCall(op, a) ==
  /\ tx.pc = "idle"
  /\ qry.op = "none"
  /\ init.pc = "done" /\ env.hasProvider
  /\ tx' = IF op \in {"lock", "nftLock"}
            THEN [IdleTx EXCEPT !.op = op, !.args = a, !.pc = "getChainApi"]
            ELSE [IdleTx EXCEPT !.op = op, !.args = a, !.pc = "awaiting",
                                !.call = CallOf(op, a), !.sent = TRUE]
  /\ OperationEffect
  /\ UNCHANGED <<chain, qry, cls>>

\* getChainApi returns: the arguments are encoded, the transaction is sent
\* and confirmLater registers its listeners.
TxChainApiReturn ==
  /\ tx.pc = "getChainApi"
  /\ tx' = [tx EXCEPT !.pc = "awaiting", !.call = CallOf(tx.op, tx.args), !.sent = TRUE,
                      !.on = ConfirmLaterListeners]
  /\ OperationEffect
  /\ UNCHANGED <<chain, qry, cls>>

\* A step before the submission fails with message m.
TxPrepareFail(m) ==
  /\ tx.pc = "getChainApi"
  /\ tx' = [tx EXCEPT !.pc = "threw", !.result = convertWalletError(RawError(m))]
  /\ OperationEffect
  /\ UNCHANGED <<chain, qry, cls>>

\* The PromiEvent emits e: the listeners run, the promises settle and an
\* operation whose awaited promise has settled runs on to its end.
TxEmit(e) ==
  /\ tx.sent
  /\ Len(tx.emitted) < MaxTxEvents
  /\ LET cl == ConfirmLater(tx.cl, tx.on, e) IN
       tx' = TxResume([tx EXCEPT !.emitted = Append(@, e),
                                 !.send = SendPromise(@, e),
                                 !.cl = cl,
                                 !.settles = IF cl.state # tx.cl.state THEN @ + 1 ELSE @,
                                 !.on = OnConfirm(@, e)])
  /\ OperationEffect
  /\ UNCHANGED <<chain, qry, cls>>

----------------------------------------------------------------------------
(* Read-only queries: getBalance, getAllowance, getTotalSupply,            *)
(* getNFTApproved, getTransactionStatus                                    *)

QueryOps == {"getBalance", "getAllowance", "getTotalSupply", "getNFTApproved",
             "getTransactionStatus"}

AmountQueries == {"getBalance", "getAllowance", "getTotalSupply"}

\* Raw integers a node can answer with: 1500000000000000000, 1234567 and 0.
RawAmounts == {<<1, 5>> \o Zeros(17), <<1, 2, 3, 4, 5, 6, 7>>, <<0>>}

\* The parameters of each query; found tells whether the registry lookup
\* (token registry, or chain registry for getNFTApproved) has an entry.
QueryArgsOf(op) ==
  IF op \in AmountQueries
  THEN {[token |-> t, hash |-> "none", found |-> f, decimals |-> TokenDecimals(t)] :
          t \in {NativeTokenHash, Erc20TokenHash}, f \in BOOLEAN}
  ELSE IF op = "getNFTApproved"
  THEN {[token |-> NftTokenHash, hash |-> "none", found |-> f, decimals |-> 0] : f \in BOOLEAN}
  ELSE {[token |-> "none", hash |-> h, found |-> TRUE, decimals |-> 0] : h \in {"h1", "h2"}}

\* `0x${transactionHash}`
With0x(h) ==
  CASE h = "h1" -> "0xh1"
    [] h = "h2" -> "0xh2"
    [] OTHER -> h

\* The value a query returns for JavaScript null.
ReturnedNull == [name |-> "null"]

\* Variant of the sentinel test that compares with the 0x-prefixed zero hash.
IsNativeToken_With0x(tokenHash) == tokenHash = "0x0000000000000000000000000000000000000000"

\* tokenHash === '0000000000000000000000000000000000000000'
IsNativeToken(tokenHash) == tokenHash = NativeTokenHash

\* Variant of the status mapping that reports every receipt as Done.
TransactionStatus_IgnoresStatus(receipt) ==
  IF receipt.present THEN "Done" ELSE "Pending"

\* getTransactionStatus: the status for the receipt that was read.
TransactionStatus(receipt) ==
  IF receipt.present
  THEN (IF receipt.status THEN "Done" ELSE "Failed")
  ELSE "Pending"

\* A query is called and runs up to its await, or to its return when it has
\* nothing to await (getAllowance and getTotalSupply of the native sentinel).
QueryCall(op, a) ==
  /\ qry.pc \in {"idle", "returned", "threw"}
  /\ tx.op = "none"
  /\ init.pc = "done" /\ env.hasProvider
  /\ qry.calls < MaxQueries
  /\ LET q == [IdleQry EXCEPT !.op = op, !.args = a, !.calls = qry.calls + 1,
                              !.prev = qry.result,
                              !.prevHash = qry.args.hash] IN
     qry' = IF op \in AmountQueries /\ IsNativeToken(a.token)
            THEN (IF op = "getBalance"
                  THEN [q EXCEPT !.pc = "rpc", !.nativeCalls = 1]
                  ELSE [q EXCEPT !.pc = "returned", !.result = ReturnedNull])
            ELSE IF op = "getTransactionStatus"
            THEN [q EXCEPT !.pc = "rpc"]
            ELSE [q EXCEPT !.pc = "rpc", !.contractCalls = 1]
  /\ OperationEffect
  /\ UNCHANGED <<tx, chain, cls>>

\* The awaited call returns: the query converts what it read and returns;
\* a registry lookup that found nothing makes it throw a TypeError here.
QueryReturn ==
  /\ qry.pc = "rpc"
  /\ \/ /\ qry.op \in AmountQueries
        /\ \E raw \in RawAmounts :
             qry' = IF qry.args.found
                    THEN [qry EXCEPT !.pc = "returned", !.raw = raw,
                                     !.result = Returned(integerToDecimal(raw, qry.args.decimals))]
                    ELSE [qry EXCEPT !.pc = "threw", !.raw = raw,
                                     !.result = convertWalletError(RawError(TypeErrorMessage))]
     \/ /\ qry.op = "getNFTApproved"
        /\ \E approvedLockContract \in BOOLEAN :
             qry' = IF qry.args.found
                    THEN [qry EXCEPT !.pc = "returned",
                                     !.result = Returned(~approvedLockContract)]
                    ELSE [qry EXCEPT !.pc = "threw",
                                     !.result = convertWalletError(RawError(TypeErrorMessage))]
     \/ /\ qry.op = "getTransactionStatus"
        /\ qry' = [qry EXCEPT !.pc = "returned",
                              !.result = Returned(TransactionStatus(
                                           chain.receipts[With0x(qry.args.hash)]))]
  /\ OperationEffect
  /\ UNCHANGED <<tx, chain, cls>>

\* The awaited call fails with message m.
QueryFail(m) ==
  /\ qry.pc = "rpc"
  /\ qry' = [qry EXCEPT !.pc = "threw", !.result = convertWalletError(RawError(m))]
  /\ OperationEffect
  /\ UNCHANGED <<tx, chain, cls>>

\* The chain moves on: a transaction gets, changes or loses its receipt.
ReceiptChange(h, r) ==
  /\ qry.op = "getTransactionStatus"
  /\ chain.receipts[h] # r
  /\ chain' = [chain EXCEPT !.receipts[h] = r]
  /\ UNCHANGED <<lifecycleVars, tx, qry, cls>>

\* The state after install() has completed with a provider and no restore.
InitTx ==
  /\ env = [hasProvider |-> TRUE, targetMainnet |-> TRUE]
  /\ prov = [accounts |-> <<"0xab12">>, network |-> <<3, 8>>]
  /\ session = null
  /\ wallet = updateWallet(InitialWallet, InstalledPayload)
  /\ lastPub = [src |-> "init", payload |-> InstalledPayload]
  /\ init = [pc |-> "done", resolved |-> 1, threw |-> None, pubs |-> 1]
  /\ listeners = RegisteredListeners
  /\ qs = [o \in {"init", "connect"} |-> IdleQuery]
  /\ conn = IdleConn
  /\ handlers = {}
  /\ evt = [accChanges |-> 0, chainChanges |-> 0, accDelivered |-> 0, accPubSeq |-> 0]
  /\ tx = IdleTx
  /\ chain = InitialChain
  /\ qry = IdleQry
  /\ cls = IdleCls

NextTx ==
  \/ \E op \in SubmitOps : \E a \in ArgsOf(op) : TxCall(op, a)
  \/ TxChainApiReturn
  \/ \E m \in ProviderMessages : TxPrepareFail(m)
  \/ \E e \in TxEvents : TxEmit(e)
  \/ \E op \in QueryOps : \E a \in QueryArgsOf(op) : QueryCall(op, a)
  \/ QueryReturn
  \/ \E m \in RequestMessages : QueryFail(m)
  \/ \E h \in DOMAIN chain.receipts, r \in Receipts : ReceiptChange(h, r)

SpecTx == InitTx /\ [][NextTx]_vars

----------------------------------------------------------------------------
(* Specifications *)

InitSteps ==
  \/ InitCall
  \/ QueryAccountsReturn("init")
  \/ QueryHexReturn("init")
  \/ QueryChainReturn("init")
  \/ \E m \in RequestMessages : QueryRequestFail("init", m)

Next ==
  \/ InitCall
  \/ \E o \in {"init", "connect"} : QueryAccountsReturn(o)
  \/ \E o \in {"init", "connect"} : QueryHexReturn(o)
  \/ \E o \in {"init", "connect"} : QueryChainReturn(o)
  \/ \E o \in {"init", "connect"}, m \in RequestMessages : QueryRequestFail(o, m)
  \/ ConnectCall
  \/ ConnectRequestReturn
  \/ \E m \in ProviderMessages : ConnectRequestFail(m)
  \/ \E accs \in AccountLists : ProviderAccountsChange(accs)
  \/ AccountsChangedReturn
  \/ \E n \in Networks : ProviderChainChange(n)

Spec == Init /\ [][Next]_vars

\* Every provider request made during init eventually returns or fails.
FairSpec == Spec /\ WF_vars(InitSteps)

----------------------------------------------------------------------------
(* Properties of transaction submission (checked under SpecTx) *)

\* The first 'transactionHash' or 'error' event of a sequence of events.
FirstSettling(es) ==
  LET I == {i \in 1..Len(es) : es[i].type \in {"transactionHash", "error"}} IN
  IF I = {} THEN [type |-> "none", value |-> null]
  ELSE es[CHOOSE i \in I : \A j \in I : i <= j]

ConfirmLaterCalled == tx.on.transactionHash > 0

\* C1: the promise of confirmLater settles at most once; it is resolved with
\* the hash when a 'transactionHash' event came before any 'error', rejected
\* with the error when an 'error' came before any hash, pending before both,
\* and no later event changes that outcome.
C1_ConfirmLaterSettlesOnce ==
  ConfirmLaterCalled =>
    LET f == FirstSettling(tx.emitted) IN
    /\ tx.settles <= 1
    /\ f.type = "none" => tx.cl.state = "pending" /\ tx.settles = 0
    /\ f.type = "transactionHash" => tx.cl.state = "resolved" /\ tx.cl.value = f.value
    /\ f.type = "error" => tx.cl.state = "rejected" /\ tx.cl.value = f.value

\* A hash, then a confirmation and an error: the promise stays resolved with the hash.
C1_Witness ==
  /\ ConfirmLaterCalled
  /\ Len(tx.emitted) = 3
  /\ tx.emitted[1].type = "transactionHash"
  /\ tx.emitted[2].type = "confirmation"
  /\ tx.emitted[3].type = "error"
  /\ tx.cl.state = "resolved"

----------------------------------------------------------------------------
(* Properties of the connection lifecycle (checked under Spec and FairSpec) *)

\* C3: in every execution of init the 'initialization complete' signal
\* (deferred.resolve) fires, and it never fires more than once.
C3_InitAlwaysCompletes ==
  /\ [](init.resolved <= 1)
  /\ <>(init.pc = "done" /\ init.resolved = 1)

\* The start-up restore failed and the signal has fired.
C3_Witness ==
  /\ init.pc = "done"
  /\ init.threw.name = "Error"
  /\ qs["init"].pc = "failed"
  /\ init.resolved = 1

\* C4: the stored state has connected = (address is non-null), and every
\* dispatch that carries address carries connected = (address is non-null)
\* with it, and the other way round.
C4_ConnectedIffAddress ==
  /\ wallet.connected = (wallet.address # null)
  /\ ("address" \in DOMAIN lastPub.payload) = ("connected" \in DOMAIN lastPub.payload)
  /\ "address" \in DOMAIN lastPub.payload
       => lastPub.payload.connected = (lastPub.payload.address # null)

\* An accountsChanged dispatch with an address whose hex conversion failed.
C4_Witness ==
  /\ lastPub.src = "accountsChanged"
  /\ wallet.connected
  /\ wallet.addressHex = null

\* C5: the dispatch of an accountsChanged handler leaves chainId (and
\* installed) as they were, and an empty account list leaves the state
\* disconnected with a null address.
C5_AccountsChangedKeepsChainId ==
  [][evt'.accPubSeq # evt.accPubSeq
       => /\ wallet'.chainId = wallet.chainId
          /\ wallet'.installed = wallet.installed
          /\ (lastPub'.payload.address = null
                => ~wallet'.connected /\ wallet'.address = null)]_vars

\* connect, then accountsChanged with an empty list: disconnected, chain id kept.
C5_Witness ==
  /\ conn.pc = "done"
  /\ lastPub.src = "accountsChanged"
  /\ ~wallet.connected
  /\ wallet.address = null
  /\ wallet.chainId = ChainIdBsc

\* C6: the dispatch of the chainChanged listener changes chainId only; the
\* new chainId is Bsc for network 0x38 on mainnet and 0x61 otherwise, and
\* absent for any other network.
C6_ChainChangedOnlyChainId ==
  [][(evt'.chainChanges # evt.chainChanges /\ listeners.chainChanged)
       => /\ wallet'.address = wallet.address
          /\ wallet'.addressHex = wallet.addressHex
          /\ wallet'.connected = wallet.connected
          /\ wallet'.installed = wallet.installed
          /\ wallet'.chainId =
               (IF prov'.network = (IF env.targetMainnet THEN <<3, 8>> ELSE <<6, 1>>)
                THEN ChainIdBsc ELSE undefined)]_vars

\* A chain change to an unknown network while connected.
C6_Witness ==
  /\ lastPub.src = "chainChanged"
  /\ wallet.chainId = undefined
  /\ wallet.connected

C8_ConnectReturnsConnected ==
  [][(conn'.pc = "done" /\ conn.pc # "done")
       => /\ qs'["connect"].pubs = 1
          /\ session' = "true"
          /\ wallet'.connected
          /\ wallet'.address # null]_vars

\* C9 as stated: once every accountsChanged handler has finished, the last
\* dispatch of a handler is that of the last event delivered.
C9_EventsAppliedInOrder ==
  (handlers = {} /\ evt.accPubSeq # 0) => evt.accPubSeq = evt.accDelivered

AllPayloadKeys == {"name", "installed", "connected", "address", "addressHex", "chainId"}

\* C10 as stated: the dispatch of every transition carries the full state.
C10_FullStatePublished ==
  lastPub.src \in {"queryState", "accountsChanged", "chainChanged"}
    => DOMAIN lastPub.payload = AllPayloadKeys

\* C10 amended: every state query dispatches once, when it completes, and
\* not before; init dispatches installed once; each dispatch carries exactly
\* the fields its transition derives, address in checksum form.
C10_DerivedFieldsPublishedOnce ==
  /\ \A o \in {"init", "connect"} : qs[o].pubs = (IF qs[o].pc = "done" THEN 1 ELSE 0)
  /\ init.pubs <= 1
  /\ lastPub.src = "init" => DOMAIN lastPub.payload = {"name", "installed"}
  /\ lastPub.src = "queryState"
       => DOMAIN lastPub.payload = {"name", "address", "addressHex", "connected", "chainId"}
  /\ lastPub.src = "accountsChanged"
       => DOMAIN lastPub.payload = {"name", "address", "addressHex", "connected"}
  /\ lastPub.src = "chainChanged" => DOMAIN lastPub.payload = {"name", "chainId"}
  /\ "address" \in DOMAIN lastPub.payload => lastPub.payload.address \notin Addresses
  /\ wallet.address \notin Addresses

\* The start-up restore has dispatched its state query.
C10_Witness ==
  /\ qs["init"].pc = "done"
  /\ lastPub.src = "queryState"
  /\ init.pubs = 1
  /\ wallet.connected

----------------------------------------------------------------------------
(* Further properties of the lifecycle and of confirmLater *)

\* C11 as stated: when init has completed with the provider present, the
\* accountsChanged and chainChanged listeners are registered, whether the
\* start-up restore succeeded, was skipped or failed.
C11_ListenersRegisteredAfterInit ==
  (init.pc = "done" /\ env.hasProvider) => listeners = RegisteredListeners

\* C12 as stated: once the promise of confirmLater has settled, no listener
\* registered by that call is left on the submission object.
C12_NoListenerLeft ==
  (tx.op \in {"lock", "nftLock"} /\ tx.cl.state # "pending") => tx.on = NoListeners

\* C13 as stated: an exported operation that fails, fails with a WalletError
\* (here install and connect).
C13_FailuresAreWalletErrors ==
  /\ init.threw.name # "none" => init.threw.name = "WalletError"
  /\ conn.pc = "failed" => conn.result.name = "WalletError"

----------------------------------------------------------------------------
(* Properties of the operations (checked under SpecTx) *)

\* C15: the native value sent by lock is the integer transfer amount when
\* the source token is the native sentinel and the integer fee otherwise;
\* locking the sentinel with amount "1.5", decimals 18 and fee "0.01" sends
\* 1500000000000000000, which is not the fee.
C15_LockValueRouting ==
  (tx.op = "lock" /\ tx.sent) =>
    /\ tx.args.token = NativeTokenHash
         => tx.call.value = decimalToInteger(tx.args.amount, tx.args.decimals)
    /\ tx.args.token # NativeTokenHash
         => tx.call.value =
              decimalToInteger(tx.args.fee, IF tx.args.nftFeeName THEN 18 ELSE tx.args.decimals)
    /\ (tx.args.token = NativeTokenHash /\ tx.args.amount = Dec(<<1>>, <<5>>))
         => /\ tx.call.value = <<1, 5, 0, 0, 0, 0, 0, 0, 0, 0, 0, 0, 0, 0, 0, 0, 0, 0, 0>>
            /\ tx.call.value # tx.call.feeInt

\* lock of the sentinel with amount "1.5" and fee "0.01" has been sent.
C15_Witness ==
  /\ tx.op = "lock"
  /\ tx.sent
  /\ tx.args.token = NativeTokenHash
  /\ tx.args.amount = Dec(<<1>>, <<5>>)
  /\ tx.args.fee = Dec(<<0>>, <<0, 1>>)
  /\ tx.call.value = <<1, 5, 0, 0, 0, 0, 0, 0, 0, 0, 0, 0, 0, 0, 0, 0, 0, 0, 0>>

----------------------------------------------------------------------------
(* convertWalletError on its own, applied once and then to its own result   *)

MessageWords == {"Rejected", "by", "user", "insufficient", "funds"}

\* Every message of at most MaxMsgLen words.
Messages == UNION {[1..n -> MessageWords] : n \in 0..MaxMsgLen}

\* A WalletError made elsewhere, whose code is not the one its message
\* would select.
ForeignWalletError ==
  [name |-> "WalletError", code |-> "UNKNOWN_ERROR", message |-> InsufficientFunds,
   cause |-> None]

\* What a catch block can receive: a raw error or an already typed one.
CaughtErrors == {RawError(m) : m \in Messages} \cup {ForeignWalletError}

InitCls ==
  /\ env = [hasProvider |-> TRUE, targetMainnet |-> TRUE]
  /\ prov = [accounts |-> <<"0xab12">>, network |-> <<3, 8>>]
  /\ session = null
  /\ wallet = updateWallet(InitialWallet, InstalledPayload)
  /\ lastPub = [src |-> "init", payload |-> InstalledPayload]
  /\ init = [pc |-> "done", resolved |-> 1, threw |-> None, pubs |-> 1]
  /\ listeners = RegisteredListeners
  /\ qs = [o \in {"init", "connect"} |-> IdleQuery]
  /\ conn = IdleConn
  /\ handlers = {}
  /\ evt = [accChanges |-> 0, chainChanges |-> 0, accDelivered |-> 0, accPubSeq |-> 0]
  /\ tx = IdleTx
  /\ chain = InitialChain
  /\ qry = IdleQry
  /\ \E e \in CaughtErrors : cls = [IdleCls EXCEPT !.input = e]

\* A catch block converts the error it caught.
Classify ==
  /\ cls.step = 0
  /\ cls' = [cls EXCEPT !.step = 1, !.once = convertWalletError(cls.input)]
  /\ UNCHANGED <<lifecycleVars, tx, chain, qry>>

\* An enclosing catch block converts the converted error again.
Reclassify ==
  /\ cls.step = 1
  /\ cls' = [cls EXCEPT !.step = 2, !.twice = convertWalletError(cls.once)]
  /\ UNCHANGED <<lifecycleVars, tx, chain, qry>>

NextCls == Classify \/ Reclassify

SpecClassify == InitCls /\ [][NextCls]_vars

----------------------------------------------------------------------------
\* C14: every getTransactionStatus call returns the status of the receipt the
\* chain holds when the call reads it, whatever earlier calls returned:
\* Pending without a receipt, Done for a receipt whose status is true, Failed
\* for a receipt whose status is false.
C14_StatusFromCurrentReceipt ==
  [][(qry.op = "getTransactionStatus" /\ qry.pc = "rpc" /\ qry'.pc = "returned")
       => LET receipt == chain.receipts[With0x(qry.args.hash)] IN
          /\ ~receipt.present => qry'.result = Returned("Pending")
          /\ (receipt.present /\ receipt.status) => qry'.result = Returned("Done")
          /\ (receipt.present /\ ~receipt.status) => qry'.result = Returned("Failed")]_vars

\* A second call for the same hash returned Failed after the first returned
\* Pending.
C14_Witness ==
  /\ qry.op = "getTransactionStatus" /\ qry.pc = "returned"
  /\ qry.prevHash = qry.args.hash
  /\ qry.prev = Returned("Pending")
  /\ qry.result = Returned("Failed")
  /\ chain.receipts[With0x(qry.args.hash)] = Receipt(FALSE)

\* C18: for the native-token sentinel no amount query makes a token-contract
\* call; getBalance reads the native balance and returns
\* integerToDecimal(raw, decimals); getAllowance and getTotalSupply return
\* null at once, never an amount.
C18_NativeSentinel ==
  (qry.op \in AmountQueries /\ qry.args.token = NativeTokenHash)
    => /\ qry.contractCalls = 0
       /\ (qry.op = "getBalance" /\ qry.pc = "returned")
            => /\ qry.nativeCalls = 1
               /\ qry.result = Returned(integerToDecimal(qry.raw, qry.args.decimals))
               /\ qry.raw = <<1, 5>> \o Zeros(17) => qry.result = Returned(Dec(<<1>>, <<5>>))
       /\ qry.op \in {"getAllowance", "getTotalSupply"}
            => /\ qry.pc = "returned"
               /\ qry.nativeCalls = 0
               /\ qry.result = ReturnedNull
               /\ qry.result # Returned(Dec(<<0>>, <<>>))

\* getBalance of the sentinel returned 1.5 for a raw balance of 15 * 10^17
\* after getAllowance of the sentinel returned null.
C18_Witness ==
  /\ qry.op = "getBalance" /\ qry.pc = "returned"
  /\ qry.args.token = NativeTokenHash
  /\ qry.contractCalls = 0 /\ qry.nativeCalls = 1
  /\ qry.raw = <<1, 5>> \o Zeros(17)
  /\ qry.result = Returned(Dec(<<1>>, <<5>>))
  /\ qry.prev = ReturnedNull

\* C19: no step of a query or of a submission, returning or throwing, changes
\* the wallet state, the last dispatch or the session flag.
C19_OperationsLeaveConnectionState ==
  [][(tx' # tx \/ qry' # qry)
       => (wallet' = wallet /\ lastPub' = lastPub /\ session' = session)]_vars

\* One query has returned and the next one has thrown, and the wallet state
\* and the flag are those the lifecycle left.
C19_Witness ==
  /\ qry.pc = "threw" /\ qry.result.name = "WalletError"
  /\ qry.prev.name = "value"
  /\ wallet = updateWallet(InitialWallet, InstalledPayload)
  /\ lastPub.src = "init"
  /\ session = null

\* C16: for a raw error convertWalletError returns a WalletError with code
\* USER_REJECTED when the message contains 'Rejected by user',
\* INSUFFICIENT_FUNDS when it contains 'insufficient funds', UNKNOWN_ERROR
\* for any other message, and with the raw error as cause.
C16_ClassifyByMessage ==
  (cls.step >= 1 /\ cls.input.name = "Error")
    => /\ cls.once.name = "WalletError"
       /\ Includes(cls.input.message, RejectedByUser) => cls.once.code = "USER_REJECTED"
       /\ Includes(cls.input.message, InsufficientFunds) => cls.once.code = "INSUFFICIENT_FUNDS"
       /\ (~Includes(cls.input.message, RejectedByUser)
           /\ ~Includes(cls.input.message, InsufficientFunds))
            => cls.once.code = "UNKNOWN_ERROR"
       /\ cls.once.cause = cls.input

\* C16 as the code has it: 'insufficient funds' selects INSUFFICIENT_FUNDS
\* only in a message without 'Rejected by user'.
C16_ClassifyByFirstMatch ==
  (cls.step >= 1 /\ cls.input.name = "Error")
    => /\ cls.once.name = "WalletError"
       /\ Includes(cls.input.message, RejectedByUser) => cls.once.code = "USER_REJECTED"
       /\ (Includes(cls.input.message, InsufficientFunds)
           /\ ~Includes(cls.input.message, RejectedByUser))
            => cls.once.code = "INSUFFICIENT_FUNDS"
       /\ (~Includes(cls.input.message, RejectedByUser)
           /\ ~Includes(cls.input.message, InsufficientFunds))
            => cls.once.code = "UNKNOWN_ERROR"
       /\ cls.once.message = cls.input.message
       /\ cls.once.cause = cls.input

\* A message with both phrases has been classified as USER_REJECTED.
C16_Witness ==
  /\ cls.step >= 1
  /\ cls.input = RawError(RejectedByUser \o InsufficientFunds)
  /\ cls.once.code = "USER_REJECTED"
  /\ cls.once.cause = cls.input

\* C17: converting a converted error gives the same WalletError, for a raw
\* error and for an already typed one, which comes back as it went in.
C17_ClassifyIdempotent ==
  /\ cls.step = 2 => cls.twice = cls.once
  /\ (cls.step >= 1 /\ cls.input.name = "WalletError") => cls.once = cls.input

\* A raw 'insufficient funds' error went through two conversions and its
\* cause is still the raw error.
C17_Witness ==
  /\ cls.step = 2
  /\ cls.input = RawError(InsufficientFunds)
  /\ cls.twice = cls.once
  /\ cls.twice.code = "INSUFFICIENT_FUNDS"
  /\ cls.twice.cause = RawError(InsufficientFunds)

\* C20 as stated: once init and connect have completed, every handler has
\* finished and no state query is in flight, with every account change
\* delivered to the registered listener, the published address and chainId
\* are those of the provider's current account and network.
C20_PublishedConvergesToProvider ==
  (/\ init.pc = "done" /\ listeners = RegisteredListeners
   /\ conn.pc = "done"
   /\ handlers = {}
   /\ \A o \in DOMAIN qs : qs[o].pc \in {"idle", "done", "failed"}
   /\ evt.accChanges = evt.accDelivered)
    => /\ wallet.address = ChecksumAddress(FirstAccount(prov.accounts))
       /\ wallet.chainId = NETWORK_CHAIN_ID_MAPS(env.targetMainnet, HexToNumber(prov.network))

====
